---- MODULE Spec2Model ----
(***************************************************************************)
(* Try/finally lowering of the HHVM Hack bytecode emitter                  *)
(* (hackc/emitter/try_finally_rewriter.rs).                                *)
(*                                                                         *)
(* The state is one function's emitter state: the jump-target stack, the   *)
(* label generator, the exit-id allocator, the special locals, the         *)
(* instruction sequence under construction, the result of the exit         *)
(* scanner, and the value returned by the last rewriter call.              *)
(*                                                                         *)
(* Instructions are tuples whose head is the opcode name:                  *)
(*   <<"RetC">>, <<"RetM", n>>, <<"Break", level>>, <<"Jmp", label>>,      *)
(*   <<"IterBreak", label, iters>>, <<"Switch", labels>>, ...              *)
(* Labels are the numbers handed out by the label generator.               *)
(***************************************************************************)
EXTENDS Integers, Sequences, FiniteSets, TLC

VARIABLES
    stack,          \* jump-target stack, innermost region last
    label_next,     \* label generator: the next label to hand out
    label_id_map,   \* exit-id allocator: keys in order of allocation (id = index - 1)
    locals,         \* special locals the local generator has allocated
    body,           \* the instruction sequence emitted so far
    size,           \* weighted size of the program compiled so far
    jump_instrs,    \* the exit scanner's map, exit id -> instruction
    out,            \* value returned by the last rewriter call
    op,             \* the last rewriter call and its arguments
    pc,             \* position of the try/finally statement emitter
    fault,          \* an internal fault (panic) aborted the compilation
    array_provenance,          \* HhvmFlags::ARRAY_PROVENANCE of the emitter's options
    array_identifier_counter,  \* AdataState: the number of the next identifier
    array_identifier_map,      \* AdataState: typed value -> identifier
    adata,                     \* AdataState: the array data entries, in order
    adata_call,                \* the last call on the adata state and its result
    issued                     \* <<value, identifier>> of the calls on this state

adata_vars == <<array_provenance, array_identifier_counter,
                array_identifier_map, adata, adata_call, issued>>

rewriter_vars == <<stack, label_next, label_id_map, locals,
                   body, size, jump_instrs, out, op, pc, fault>>

vars == <<rewriter_vars, adata_vars>>

(***************************************************************************)
(* Bounds of the model.                                                    *)
(***************************************************************************)
MaxDepth == 3
MaxSize == 4
MaxLevel == 2
MaxLabel == 8
MaxOut == 1
MaxPos == 1
CostSpecial == 2
MaxAdata == 4

(***************************************************************************)
(* Sequence helpers.                                                       *)
(***************************************************************************)
RECURSIVE Flatten(_)
Flatten(ss) == IF ss = <<>> THEN <<>> ELSE Head(ss) \o Flatten(Tail(ss))

RECURSIVE Reverse(_)
Reverse(s) == IF s = <<>> THEN <<>> ELSE Append(Reverse(Tail(s)), Head(s))

Range(s) == {s[i] : i \in 1..Len(s)}

Last(s) == s[Len(s)]

Front(s) == SubSeq(s, 1, Len(s) - 1)

Drop(s, n) == SubSeq(s, n + 1, Len(s))

(***************************************************************************)
(* Jump-target stack (env::jump_targets).                                  *)
(***************************************************************************)
LoopRegion(lb, lc, it, st) ==
    [kind |-> "Loop", label_break |-> lb, label_continue |-> lc,
     finally_label |-> 0, finally_end |-> 0, iterator |-> it, start |-> st]

SwitchRegion(le, st) ==
    [kind |-> "Switch", label_break |-> le, label_continue |-> le,
     finally_label |-> 0, finally_end |-> 0, iterator |-> <<>>, start |-> st]

TryFinallyRegion(fs, fe, st) ==
    [kind |-> "TryFinally", label_break |-> 0, label_continue |-> 0,
     finally_label |-> fs, finally_end |-> fe, iterator |-> <<>>, start |-> st]

NotFound ==
    [kind |-> "NotFound", target_label |-> 0, finally_label |-> 0,
     iterators_to_release |-> <<>>, adjusted_level |-> 0]

ResolvedRegular(l, its) ==
    [kind |-> "ResolvedRegular", target_label |-> l, finally_label |-> 0,
     iterators_to_release |-> its, adjusted_level |-> 0]

ResolvedTryFinally(l, fl, its, lvl) ==
    [kind |-> "ResolvedTryFinally", target_label |-> l, finally_label |-> fl,
     iterators_to_release |-> its, adjusted_level |-> lvl]

\* Walk the stack from the innermost region (index i) outwards.  acc holds the
\* iterators of the loops crossed so far; fin is <<>> until the nearest
\* try/finally is met and then <<finally_label, level, iterators>> as they
\* stood at that region.
RECURSIVE ResolveFrom(_, _, _, _, _, _)
ResolveFrom(st, i, is_break, level, acc, fin) ==
    IF i = 0 THEN NotFound
    ELSE LET r == st[i]
             Done(l, its) ==
                 IF fin = <<>> THEN ResolvedRegular(l, its)
                 ELSE ResolvedTryFinally(l, fin[1], fin[3], fin[2])
         IN  CASE r.kind = "TryFinally" ->
                    ResolveFrom(st, i - 1, is_break, level, acc,
                                IF fin = <<>> THEN <<r.finally_label, level, acc>>
                                ELSE fin)
               [] r.kind = "Switch" ->
                    IF level = 1 THEN Done(r.label_break, acc)
                    ELSE ResolveFrom(st, i - 1, is_break, level - 1, acc, fin)
               [] r.kind = "Loop" ->
                    IF level = 1
                    THEN IF is_break THEN Done(r.label_break, acc \o r.iterator)
                         ELSE Done(r.label_continue, acc)
                    ELSE ResolveFrom(st, i - 1, is_break, level - 1,
                                     acc \o r.iterator, fin)

get_target_for_level(st, is_break, level) ==
    ResolveFrom(st, Len(st), is_break, level, <<>>, <<>>)

\* <<>> for None, <<finally_label, iterators between>> for Some.
RECURSIVE ClosestFinallyFrom(_, _, _)
ClosestFinallyFrom(st, i, acc) ==
    IF i = 0 THEN <<>>
    ELSE IF st[i].kind = "TryFinally" THEN <<st[i].finally_label, acc>>
    ELSE ClosestFinallyFrom(st, i - 1, acc \o st[i].iterator)

get_closest_enclosing_finally_label(st) == ClosestFinallyFrom(st, Len(st), <<>>)

\* The iterators of all enclosing loops, innermost first.
RECURSIVE iterators(_)
iterators(st) ==
    IF st = <<>> THEN <<>> ELSE Last(st).iterator \o iterators(Front(st))

(***************************************************************************)
(* Exit-id allocator (jump_targets::Gen).                                  *)
(***************************************************************************)
IdReturn == <<"IdReturn">>

IdLabel(l) == <<"IdLabel", l>>

IndexOf(s, k) == CHOOSE i \in 1..Len(s) : s[i] = k

\* The map after a request for key k: k is appended on its first request.
new_id_map(m, k) == IF k \in Range(m) THEN m ELSE Append(m, k)

\* The id a request for key k returns.
new_id(m, k) == IndexOf(new_id_map(m, k), k) - 1

(***************************************************************************)
(* Instructions (instruction_sequence::instr) and the external emitters.   *)
(***************************************************************************)
LabelLocal == "label_local"

RetvalLocal == "retval_local"

instr_retc == <<"RetC">>

instr_retc_suspended == <<"RetCSuspended">>

instr_retm(n) == <<"RetM", n>>

instr_break(level) == <<"Break", level>>

instr_continue(level) == <<"Continue", level>>

instr_jmp(l) == <<"Jmp", l>>

instr_jmpz(l) == <<"JmpZ", l>>

instr_iter_break(l, its) == <<"IterBreak", l, its>>

instr_iterfree(it) == <<"IterFree", it>>

instr_label(l) == <<"Label", l>>

instr_switch(ls) == <<"Switch", ls>>

instr_int(i) == <<"Int", i>>

instr_setl(x) == <<"SetL", x>>

instr_cgetl(x) == <<"CGetL", x>>

instr_issetl(x) == <<"IsSetL", x>>

instr_unsetl(x) == <<"UnsetL", x>>

instr_popc == <<"PopC">>

instr_srcloc(pos) == <<"SrcLoc", pos>>

\* The position emitter.
emit_pos(pos) == <<instr_srcloc(pos)>>

\* The fatal emitter's sequence for an unresolved break/continue.
emit_fatal_for_break_continue(pos, level) == <<<<"Fatal", pos, level>>>>

\* The verify-outputs sequence held by the emitter statement state: one
\* check per inout output.
verify_out(n) == [k \in 1..n |-> <<"VerifyOutType", k>>]

\* The return-type verification chosen by the reification level of the
\* declared return hint; the type-structure push and the null bypass come
\* from the reified-generics helper.
verify_return_instr(lvl) ==
    CASE lvl = "NoHint" -> <<>>
      [] lvl = "Unconstrained" -> <<>>
      [] lvl = "Not" -> <<<<"VerifyRetTypeC">>>>
      [] lvl = "Maybe" -> <<<<"TypeStructure">>, <<"VerifyRetTypeTS">>>>
      [] lvl = "Definitely" ->
            <<<<"Dup">>, <<"IsTypeC", "Null">>, <<"TypeStructure">>,
              <<"VerifyRetTypeTS">>>>

(***************************************************************************)
(* try_finally_rewriter.rs                                                 *)
(***************************************************************************)
IsRet(i) == i[1] \in {"RetC", "RetCSuspended", "RetM"}

IsExit(i) == i[1] \in {"Continue", "Break", "RetC", "RetCSuspended", "RetM"}

\* cleanup_try_body with RetM missing from the pattern.
RECURSIVE cleanup_try_body_keeps_retm(_)
cleanup_try_body_keeps_retm(is) ==
    IF is = <<>> THEN <<>>
    ELSE IF ~IsExit(Head(is)) \/ Head(is)[1] = "RetM"
    THEN <<Head(is)>> \o cleanup_try_body_keeps_retm(Tail(is))
    ELSE cleanup_try_body_keeps_retm(Tail(is))

\* cleanup_try_body: retain the instructions that are not exits.
RECURSIVE cleanup_try_body(_)
cleanup_try_body(is) ==
    IF is = <<>> THEN <<>>
    ELSE IF ~IsExit(Head(is)) THEN <<Head(is)>> \o cleanup_try_body(Tail(is))
    ELSE cleanup_try_body(Tail(is))

\* A jump that never frees the iterators between the site and the label.
emit_jump_to_label_always_jmp(l, iters) == <<instr_jmp(l)>>

emit_jump_to_label(l, iters) ==
    IF iters = <<>> THEN <<instr_jmp(l)>> ELSE <<instr_iter_break(l, iters)>>

emit_save_label_id(id) == <<instr_int(id), instr_setl(LabelLocal), instr_popc>>

\* An insert that keeps the value already stored under the key.
map_insert_keeps_old(acc, id, instr) ==
    [k \in DOMAIN acc \cup {id} |-> IF k \in DOMAIN acc THEN acc[k] ELSE instr]

\* BTreeMap::insert: the value stored under an existing key is replaced.
map_insert(acc, id, instr) ==
    [k \in DOMAIN acc \cup {id} |-> IF k = id THEN instr ELSE acc[k]]

\* JumpInstructions::collect, the fold over the try body.  The result holds
\* the map, the allocator after the scan, and whether get_label_id hit its
\* unreachable!() arm.
RECURSIVE collect_fold(_, _, _, _)
collect_fold(is, acc, m, st) ==
    IF is = <<>> THEN [map |-> acc, ids |-> m, panic |-> FALSE]
    ELSE LET instr == Head(is) IN
         CASE instr[1] \in {"Break", "Continue"} ->
                LET t == get_target_for_level(st, instr[1] = "Break", instr[2])
                    k == IdLabel(t.target_label)
                IN  IF t.kind = "NotFound"
                    THEN [map |-> acc, ids |-> m, panic |-> TRUE]
                    ELSE collect_fold(Tail(is),
                                      map_insert(acc, new_id(m, k), instr),
                                      new_id_map(m, k), st)
           [] IsRet(instr) ->
                collect_fold(Tail(is),
                             map_insert(acc, new_id(m, IdReturn), instr),
                             new_id_map(m, IdReturn), st)
           [] OTHER -> collect_fold(Tail(is), acc, m, st)

\* A scan that passes over the Break/Continue it cannot resolve.
collect_skips_unresolved(is, m, st) ==
    collect_fold(SelectSeq(is, LAMBDA i :
                     ~(/\ i[1] \in {"Break", "Continue"}
                       /\ get_target_for_level(st, i[1] = "Break", i[2]).kind
                              = "NotFound")),
                 <<>>, m, st)

collect(is, m, st) == collect_fold(is, <<>>, m, st)

\* A return lowering that never reloads the saved return value.
emit_return_never_reloads(in_finally_epilogue, st, n_out, lvl, m, ls) ==
    LET cf == get_closest_enclosing_finally_label(st) IN
    IF cf = <<>>
    THEN [instrs |->
              verify_return_instr(lvl)
              \o verify_out(n_out)
              \o [k \in 1..Len(iterators(st)) |-> instr_iterfree(iterators(st)[k])]
              \o <<IF n_out # 0 THEN instr_retm(n_out + 1) ELSE instr_retc>>,
          ids |-> m,
          locals |-> ls]
    ELSE [instrs |->
              (IF in_finally_epilogue THEN <<>>
               ELSE emit_save_label_id(new_id(m, IdReturn))
                    \o <<instr_setl(RetvalLocal), instr_popc>>)
              \o emit_jump_to_label(cf[1], cf[2])
              \o <<instr_retc>>,
          ids |-> IF in_finally_epilogue THEN m ELSE new_id_map(m, IdReturn),
          locals |-> IF in_finally_epilogue THEN ls
                     ELSE ls \cup {LabelLocal, RetvalLocal}]

\* A return lowering that saves the exit id and the value before every jump
\* into a finally, also when re-lowering in an epilogue.
emit_return_always_saves(in_finally_epilogue, st, n_out, lvl, m, ls) ==
    LET cf == get_closest_enclosing_finally_label(st) IN
    IF cf = <<>>
    THEN [instrs |->
              (IF in_finally_epilogue THEN <<instr_cgetl(RetvalLocal)>> ELSE <<>>)
              \o verify_return_instr(lvl)
              \o verify_out(n_out)
              \o [k \in 1..Len(iterators(st)) |-> instr_iterfree(iterators(st)[k])]
              \o <<IF n_out # 0 THEN instr_retm(n_out + 1) ELSE instr_retc>>,
          ids |-> m,
          locals |-> IF in_finally_epilogue THEN ls \cup {RetvalLocal} ELSE ls]
    ELSE [instrs |->
              emit_save_label_id(new_id(m, IdReturn))
              \o <<instr_setl(RetvalLocal), instr_popc>>
              \o emit_jump_to_label(cf[1], cf[2])
              \o <<instr_retc>>,
          ids |-> new_id_map(m, IdReturn),
          locals |-> ls \cup {LabelLocal, RetvalLocal}]

\* A return lowering that leaves no RetC behind the jump into a finally.
emit_return_drops_sentinel(in_finally_epilogue, st, n_out, lvl, m, ls) ==
    LET cf == get_closest_enclosing_finally_label(st) IN
    IF cf = <<>>
    THEN [instrs |->
              (IF in_finally_epilogue THEN <<instr_cgetl(RetvalLocal)>> ELSE <<>>)
              \o verify_return_instr(lvl)
              \o verify_out(n_out)
              \o [k \in 1..Len(iterators(st)) |-> instr_iterfree(iterators(st)[k])]
              \o <<IF n_out # 0 THEN instr_retm(n_out + 1) ELSE instr_retc>>,
          ids |-> m,
          locals |-> IF in_finally_epilogue THEN ls \cup {RetvalLocal} ELSE ls]
    ELSE [instrs |->
              (IF in_finally_epilogue THEN <<>>
               ELSE emit_save_label_id(new_id(m, IdReturn))
                    \o <<instr_setl(RetvalLocal), instr_popc>>)
              \o emit_jump_to_label(cf[1], cf[2])
              \o (IF in_finally_epilogue THEN <<>> ELSE <<instr_retc>>),
          ids |-> IF in_finally_epilogue THEN m ELSE new_id_map(m, IdReturn),
          locals |-> IF in_finally_epilogue THEN ls
                     ELSE ls \cup {LabelLocal, RetvalLocal}]

\* emit_return: the instructions, and the allocator and locals afterwards.
emit_return(in_finally_epilogue, st, n_out, lvl, m, ls) ==
    LET cf == get_closest_enclosing_finally_label(st) IN
    IF cf = <<>>
    THEN [instrs |->
              (IF in_finally_epilogue THEN <<instr_cgetl(RetvalLocal)>> ELSE <<>>)
              \o verify_return_instr(lvl)
              \o verify_out(n_out)
              \o [k \in 1..Len(iterators(st)) |-> instr_iterfree(iterators(st)[k])]
              \o <<IF n_out # 0 THEN instr_retm(n_out + 1) ELSE instr_retc>>,
          ids |-> m,
          locals |-> IF in_finally_epilogue THEN ls \cup {RetvalLocal} ELSE ls]
    ELSE [instrs |->
              (IF in_finally_epilogue THEN <<>>
               ELSE emit_save_label_id(new_id(m, IdReturn))
                    \o <<instr_setl(RetvalLocal), instr_popc>>)
              \o emit_jump_to_label(cf[1], cf[2])
              \o <<instr_retc>>,
          ids |-> IF in_finally_epilogue THEN m ELSE new_id_map(m, IdReturn),
          locals |-> IF in_finally_epilogue THEN ls
                     ELSE ls \cup {LabelLocal, RetvalLocal}]

\* A break/continue lowering whose sentinel keeps the level of the site.
emit_break_or_continue_keeps_level(is_break, in_finally_epilogue, st, pos, level, m, ls) ==
    LET t == get_target_for_level(st, is_break, level) IN
    CASE t.kind = "NotFound" ->
           [instrs |-> emit_fatal_for_break_continue(pos, level),
            ids |-> m, locals |-> ls]
      [] t.kind = "ResolvedRegular" ->
           [instrs |->
                (IF in_finally_epilogue /\ level = 1
                 THEN <<instr_unsetl(LabelLocal)>> ELSE <<>>)
                \o emit_pos(pos)
                \o emit_jump_to_label(t.target_label, t.iterators_to_release),
            ids |-> m,
            locals |-> IF in_finally_epilogue /\ level = 1
                       THEN ls \cup {LabelLocal} ELSE ls]
      [] t.kind = "ResolvedTryFinally" ->
           [instrs |->
                (IF ~in_finally_epilogue
                 THEN emit_save_label_id(new_id(m, IdLabel(t.target_label)))
                 ELSE <<>>)
                \o emit_jump_to_label(t.finally_label, t.iterators_to_release)
                \o emit_pos(pos)
                \o <<IF is_break THEN instr_break(level)
                     ELSE instr_continue(level)>>,
            ids |-> IF ~in_finally_epilogue
                    THEN new_id_map(m, IdLabel(t.target_label)) ELSE m,
            locals |-> IF ~in_finally_epilogue THEN ls \cup {LabelLocal}
                       ELSE ls]

\* A break/continue lowering that unsets label_local on every direct jump
\* out of an epilogue, whatever the level.
emit_break_or_continue_always_unsets(is_break, in_finally_epilogue, st, pos, level, m, ls) ==
    LET t == get_target_for_level(st, is_break, level) IN
    CASE t.kind = "NotFound" ->
           [instrs |-> emit_fatal_for_break_continue(pos, level),
            ids |-> m, locals |-> ls]
      [] t.kind = "ResolvedRegular" ->
           [instrs |->
                (IF in_finally_epilogue
                 THEN <<instr_unsetl(LabelLocal)>> ELSE <<>>)
                \o emit_pos(pos)
                \o emit_jump_to_label(t.target_label, t.iterators_to_release),
            ids |-> m,
            locals |-> IF in_finally_epilogue
                       THEN ls \cup {LabelLocal} ELSE ls]
      [] t.kind = "ResolvedTryFinally" ->
           [instrs |->
                (IF ~in_finally_epilogue
                 THEN emit_save_label_id(new_id(m, IdLabel(t.target_label)))
                 ELSE <<>>)
                \o emit_jump_to_label(t.finally_label, t.iterators_to_release)
                \o emit_pos(pos)
                \o <<IF is_break THEN instr_break(t.adjusted_level)
                     ELSE instr_continue(t.adjusted_level)>>,
            ids |-> IF ~in_finally_epilogue
                    THEN new_id_map(m, IdLabel(t.target_label)) ELSE m,
            locals |-> IF ~in_finally_epilogue THEN ls \cup {LabelLocal}
                       ELSE ls]

\* A break/continue lowering whose fatal case prepares an exit all the same.
emit_break_or_continue_fatal_saves(is_break, in_finally_epilogue, st, pos, level, m, ls) ==
    LET t == get_target_for_level(st, is_break, level) IN
    CASE t.kind = "NotFound" ->
           [instrs |-> emit_fatal_for_break_continue(pos, level),
            ids |-> new_id_map(m, IdLabel(0)),
            locals |-> ls \cup {LabelLocal}]
      [] t.kind = "ResolvedRegular" ->
           [instrs |->
                (IF in_finally_epilogue /\ level = 1
                 THEN <<instr_unsetl(LabelLocal)>> ELSE <<>>)
                \o emit_pos(pos)
                \o emit_jump_to_label(t.target_label, t.iterators_to_release),
            ids |-> m,
            locals |-> IF in_finally_epilogue /\ level = 1
                       THEN ls \cup {LabelLocal} ELSE ls]
      [] t.kind = "ResolvedTryFinally" ->
           [instrs |->
                (IF ~in_finally_epilogue
                 THEN emit_save_label_id(new_id(m, IdLabel(t.target_label)))
                 ELSE <<>>)
                \o emit_jump_to_label(t.finally_label, t.iterators_to_release)
                \o emit_pos(pos)
                \o <<IF is_break THEN instr_break(t.adjusted_level)
                     ELSE instr_continue(t.adjusted_level)>>,
            ids |-> IF ~in_finally_epilogue
                    THEN new_id_map(m, IdLabel(t.target_label)) ELSE m,
            locals |-> IF ~in_finally_epilogue THEN ls \cup {LabelLocal}
                       ELSE ls]

\* A break/continue lowering that saves the id of the finally label it
\* jumps to, not of the label the statement targets.
emit_break_or_continue_saves_finally_id(is_break, in_finally_epilogue, st, pos, level, m, ls) ==
    LET t == get_target_for_level(st, is_break, level) IN
    CASE t.kind = "NotFound" ->
           [instrs |-> emit_fatal_for_break_continue(pos, level),
            ids |-> m, locals |-> ls]
      [] t.kind = "ResolvedRegular" ->
           [instrs |->
                (IF in_finally_epilogue /\ level = 1
                 THEN <<instr_unsetl(LabelLocal)>> ELSE <<>>)
                \o emit_pos(pos)
                \o emit_jump_to_label(t.target_label, t.iterators_to_release),
            ids |-> m,
            locals |-> IF in_finally_epilogue /\ level = 1
                       THEN ls \cup {LabelLocal} ELSE ls]
      [] t.kind = "ResolvedTryFinally" ->
           [instrs |->
                (IF ~in_finally_epilogue
                 THEN emit_save_label_id(new_id(m, IdLabel(t.finally_label)))
                 ELSE <<>>)
                \o emit_jump_to_label(t.finally_label, t.iterators_to_release)
                \o emit_pos(pos)
                \o <<IF is_break THEN instr_break(t.adjusted_level)
                     ELSE instr_continue(t.adjusted_level)>>,
            ids |-> IF ~in_finally_epilogue
                    THEN new_id_map(m, IdLabel(t.finally_label)) ELSE m,
            locals |-> IF ~in_finally_epilogue THEN ls \cup {LabelLocal}
                       ELSE ls]

\* emit_break_or_continue: the instructions, and the allocator and locals
\* afterwards.
emit_break_or_continue(is_break, in_finally_epilogue, st, pos, level, m, ls) ==
    LET t == get_target_for_level(st, is_break, level) IN
    CASE t.kind = "NotFound" ->
           [instrs |-> emit_fatal_for_break_continue(pos, level),
            ids |-> m, locals |-> ls]
      [] t.kind = "ResolvedRegular" ->
           [instrs |->
                (IF in_finally_epilogue /\ level = 1
                 THEN <<instr_unsetl(LabelLocal)>> ELSE <<>>)
                \o emit_pos(pos)
                \o emit_jump_to_label(t.target_label, t.iterators_to_release),
            ids |-> m,
            locals |-> IF in_finally_epilogue /\ level = 1
                       THEN ls \cup {LabelLocal} ELSE ls]
      [] t.kind = "ResolvedTryFinally" ->
           [instrs |->
                (IF ~in_finally_epilogue
                 THEN emit_save_label_id(new_id(m, IdLabel(t.target_label)))
                 ELSE <<>>)
                \o emit_jump_to_label(t.finally_label, t.iterators_to_release)
                \o emit_pos(pos)
                \o <<IF is_break THEN instr_break(t.adjusted_level)
                     ELSE instr_continue(t.adjusted_level)>>,
            ids |-> IF ~in_finally_epilogue
                    THEN new_id_map(m, IdLabel(t.target_label)) ELSE m,
            locals |-> IF ~in_finally_epilogue THEN ls \cup {LabelLocal}
                       ELSE ls]

\* emit_finally_epilogue::emit_instr: re-lower one captured exit.
emit_instr(st, n_out, lvl, pos, i, m, ls) ==
    CASE IsRet(i) -> emit_return(TRUE, st, n_out, lvl, m, ls)
      [] i[1] = "Break" ->
           emit_break_or_continue(TRUE, TRUE, st, pos, i[2], m, ls)
      [] i[1] = "Continue" ->
           emit_break_or_continue(FALSE, TRUE, st, pos, i[2], m, ls)

\* The keys of a map, largest first (BTreeMap iteration, reversed).
RECURSIVE keys_rev(_)
keys_rev(S) ==
    IF S = {} THEN <<>>
    ELSE LET mx == CHOOSE x \in S : \A y \in S : y <= x
         IN  <<mx>> \o keys_rev(S \ {mx})

\* The loop over the map in descending id order.  Each turn of the inner
\* loop decrements limit; a hole pushes finally_end, a hit takes a fresh
\* label and re-lowers the instruction.  e carries what the re-lowerings
\* read and change: the allocator (ids), the locals and the label generator.
RECURSIVE epilogue_loop(_, _, _, _, _, _, _, _, _, _)
epilogue_loop(ks, jis, limit, labels, bodies, e, st, n_out, lvl, a) ==
    IF ks = <<>> THEN [labels |-> labels, bodies |-> bodies, limit |-> limit, e |-> e]
    ELSE IF Head(ks) = limit - 1
    THEN LET label == e.label_next
             r == emit_instr(st, n_out, lvl, a.pos, jis[Head(ks)], e.ids, e.locals)
         IN  epilogue_loop(Tail(ks), jis, limit - 1,
                           Append(labels, label),
                           Append(bodies, <<instr_label(label)>> \o r.instrs),
                           [label_next |-> label + 1, ids |-> r.ids,
                            locals |-> r.locals],
                           st, n_out, lvl, a)
    ELSE epilogue_loop(ks, jis, limit - 1, Append(labels, a.finally_end),
                       bodies, e, st, n_out, lvl, a)

\* An epilogue whose switch table is not filled below the smallest key.
emit_finally_epilogue_no_fill(st, n_out, lvl, pos, jis, finally_end, m, ls, ln) ==
    IF DOMAIN jis = {}
    THEN [instrs |-> <<>>, ids |-> m, locals |-> ls, label_next |-> ln]
    ELSE IF Cardinality(DOMAIN jis) = 1
    THEN LET id == CHOOSE k \in DOMAIN jis : TRUE
             r == emit_instr(st, n_out, lvl, pos, jis[id], m, ls \cup {LabelLocal})
         IN  [instrs |-> emit_pos(pos)
                         \o <<instr_issetl(LabelLocal), instr_jmpz(finally_end)>>
                         \o r.instrs,
              ids |-> r.ids, locals |-> r.locals, label_next |-> ln]
    ELSE LET ks == keys_rev(DOMAIN jis)
             max_id == Head(ks)
             l == epilogue_loop(ks, jis, max_id + 1, <<>>, <<>>,
                                [label_next |-> ln, ids |-> m, locals |-> ls],
                                st, n_out, lvl,
                                [pos |-> pos, finally_end |-> finally_end])
             labels == l.labels
         IN  [instrs |-> emit_pos(pos)
                         \o <<instr_issetl(LabelLocal), instr_jmpz(finally_end),
                              instr_cgetl(LabelLocal),
                              instr_switch(Reverse(labels))>>
                         \o Flatten(Reverse(l.bodies)),
              ids |-> l.e.ids, locals |-> l.e.locals \cup {LabelLocal},
              label_next |-> l.e.label_next]

\* An epilogue that lays the handlers out as the loop built them.
emit_finally_epilogue_unreversed(st, n_out, lvl, pos, jis, finally_end, m, ls, ln) ==
    IF DOMAIN jis = {}
    THEN [instrs |-> <<>>, ids |-> m, locals |-> ls, label_next |-> ln]
    ELSE IF Cardinality(DOMAIN jis) = 1
    THEN LET id == CHOOSE k \in DOMAIN jis : TRUE
             r == emit_instr(st, n_out, lvl, pos, jis[id], m, ls \cup {LabelLocal})
         IN  [instrs |-> emit_pos(pos)
                         \o <<instr_issetl(LabelLocal), instr_jmpz(finally_end)>>
                         \o r.instrs,
              ids |-> r.ids, locals |-> r.locals, label_next |-> ln]
    ELSE LET ks == keys_rev(DOMAIN jis)
             max_id == Head(ks)
             l == epilogue_loop(ks, jis, max_id + 1, <<>>, <<>>,
                                [label_next |-> ln, ids |-> m, locals |-> ls],
                                st, n_out, lvl,
                                [pos |-> pos, finally_end |-> finally_end])
             labels == l.labels \o [k \in 1..l.limit |-> finally_end]
         IN  [instrs |-> emit_pos(pos)
                         \o <<instr_issetl(LabelLocal), instr_jmpz(finally_end),
                              instr_cgetl(LabelLocal),
                              instr_switch(Reverse(labels))>>
                         \o Flatten(l.bodies),
              ids |-> l.e.ids, locals |-> l.e.locals \cup {LabelLocal},
              label_next |-> l.e.label_next]

\* An epilogue that dispatches through a switch also for a single exit.
emit_finally_epilogue_always_switch(st, n_out, lvl, pos, jis, finally_end, m, ls, ln) ==
    IF DOMAIN jis = {}
    THEN [instrs |-> <<>>, ids |-> m, locals |-> ls, label_next |-> ln]
    ELSE LET ks == keys_rev(DOMAIN jis)
             max_id == Head(ks)
             l == epilogue_loop(ks, jis, max_id + 1, <<>>, <<>>,
                                [label_next |-> ln, ids |-> m, locals |-> ls],
                                st, n_out, lvl,
                                [pos |-> pos, finally_end |-> finally_end])
             labels == l.labels \o [k \in 1..l.limit |-> finally_end]
         IN  [instrs |-> emit_pos(pos)
                         \o <<instr_issetl(LabelLocal), instr_jmpz(finally_end),
                              instr_cgetl(LabelLocal),
                              instr_switch(Reverse(labels))>>
                         \o Flatten(Reverse(l.bodies)),
              ids |-> l.e.ids, locals |-> l.e.locals \cup {LabelLocal},
              label_next |-> l.e.label_next]

\* emit_finally_epilogue: the instructions, and the allocator, locals and
\* label generator afterwards.
emit_finally_epilogue(st, n_out, lvl, pos, jis, finally_end, m, ls, ln) ==
    IF DOMAIN jis = {}
    THEN [instrs |-> <<>>, ids |-> m, locals |-> ls, label_next |-> ln]
    ELSE IF Cardinality(DOMAIN jis) = 1
    THEN LET id == CHOOSE k \in DOMAIN jis : TRUE
             r == emit_instr(st, n_out, lvl, pos, jis[id], m, ls \cup {LabelLocal})
         IN  [instrs |-> emit_pos(pos)
                         \o <<instr_issetl(LabelLocal), instr_jmpz(finally_end)>>
                         \o r.instrs,
              ids |-> r.ids, locals |-> r.locals, label_next |-> ln]
    ELSE LET ks == keys_rev(DOMAIN jis)
             max_id == Head(ks)
             l == epilogue_loop(ks, jis, max_id + 1, <<>>, <<>>,
                                [label_next |-> ln, ids |-> m, locals |-> ls],
                                st, n_out, lvl,
                                [pos |-> pos, finally_end |-> finally_end])
             labels == l.labels \o [k \in 1..l.limit |-> finally_end]
         IN  [instrs |-> emit_pos(pos)
                         \o <<instr_issetl(LabelLocal), instr_jmpz(finally_end),
                              instr_cgetl(LabelLocal),
                              instr_switch(Reverse(labels))>>
                         \o Flatten(Reverse(l.bodies)),
              ids |-> l.e.ids, locals |-> l.e.locals \cup {LabelLocal},
              label_next |-> l.e.label_next]

(***************************************************************************)
(* Initial state: a fresh emitter at the start of a function body.         *)
(***************************************************************************)
ReificationLevels == {"NoHint", "Unconstrained", "Not", "Maybe", "Definitely"}

Positions == 1..MaxPos

\* Instructions other emitters put into a try body.
RawInstrs ==
    {instr_int(42), instr_retc_suspended, instr_retm(2)}
    \cup {instr_break(l) : l \in 1..MaxLevel}
    \cup {instr_continue(l) : l \in 1..MaxLevel}

\* op records the rewriter call that returned last and its arguments; out is
\* the value it returned.  Both are temporaries of the statement emitter and
\* are gone once it moves on.
NoOp ==
    [name |-> "none", in_finally_epilogue |-> FALSE, is_break |-> FALSE,
     level |-> 0, pos |-> 0, num_out |-> 0, reification |-> "NoHint",
     finally_end |-> 0,
     instr_seq |-> <<>>, jump_instrs |-> <<>>, relowered |-> <<>>,
     ids_before |-> <<>>, label_next_before |-> 0]

\* No call on the adata state yet.
NoAdataCall ==
    [name |-> "none", tv |-> "", id |-> "", seen_before |-> FALSE,
     counter_before |-> 0, len_before |-> 0]

\* AdataState::default(), under the given options.
AdataInit(flag) ==
    /\ array_provenance = flag
    /\ array_identifier_counter = 0
    /\ array_identifier_map = <<>>
    /\ adata = <<>>
    /\ adata_call = NoAdataCall
    /\ issued = {}

RewriterInit ==
    /\ stack = <<>>
    /\ label_next = 1
    /\ label_id_map = <<>>
    /\ locals = {}
    /\ body = <<>>
    /\ size = 0
    /\ jump_instrs = <<>>
    /\ out = <<>>
    /\ op = NoOp
    /\ pc = "build"
    /\ fault = FALSE

\* A fresh emitter; the rewriter does not read the array provenance flag.
Init == RewriterInit /\ AdataInit(FALSE)

(***************************************************************************)
(* Entering and leaving loops, switches and try blocks.                    *)
(***************************************************************************)
NextIter(st) == Len(iterators(st))

\* The weighted size of a program: a return, or a break or continue of one
\* level, weighs 1; a break or continue of several levels, an instruction of
\* another emitter, a switch and a loop with an iterator weigh CostSpecial;
\* plain loops and try blocks weigh nothing (MaxDepth and MaxLabel bound them).
StmtCost(level) == IF level = 1 THEN 1 ELSE CostSpecial

InTry(st) == \E i \in 1..Len(st) : st[i].kind = "TryFinally"

\* Statements are emitted once the loops of the nest have been entered.
Emitting == pc \in {"build", "emit"} /\ ~fault

\* The emitter statement state a call can read (num_out, and the level the
\* reified-generics helper reports for verify_return): it is read only when
\* a return is lowered with no enclosing finally.
StatementStates(st, has_return) ==
    IF has_return /\ get_closest_enclosing_finally_label(st) = <<>>
    THEN (0..MaxOut) \X ReificationLevels ELSE {<<0, "NoHint">>}

PushLoop(has_iter) ==
    /\ pc = "build" /\ ~fault
    /\ Len(stack) < MaxDepth
    /\ size + (IF has_iter THEN CostSpecial ELSE 0) <= MaxSize
    /\ size' = size + (IF has_iter THEN CostSpecial ELSE 0)
    /\ stack' = Append(stack,
                  LoopRegion(label_next, label_next + 1,
                             IF has_iter THEN <<NextIter(stack)>> ELSE <<>>, 0))
    /\ label_next' = label_next + 2
    /\ out' = <<>> /\ op' = NoOp
    /\ UNCHANGED <<label_id_map, locals, body,
                   jump_instrs, pc, fault>>
    /\ UNCHANGED adata_vars

PushSwitch ==
    /\ pc = "build" /\ ~fault
    /\ Len(stack) < MaxDepth
    /\ size + CostSpecial <= MaxSize
    /\ size' = size + CostSpecial
    /\ stack' = Append(stack, SwitchRegion(label_next, 0))
    /\ label_next' = label_next + 1
    /\ out' = <<>> /\ op' = NoOp
    /\ UNCHANGED <<label_id_map, locals, body,
                   jump_instrs, pc, fault>>
    /\ UNCHANGED adata_vars

\* emit_try_finally: take the labels of the finally block and of its end and
\* enter the try body.
PushTryFinally ==
    /\ Emitting
    /\ Len(stack) < MaxDepth
    /\ label_next + 1 <= MaxLabel
    /\ stack' = Append(stack,
                  TryFinallyRegion(label_next, label_next + 1, Len(body)))
    /\ label_next' = label_next + 2
    /\ out' = <<>> /\ op' = NoOp
    /\ UNCHANGED <<label_id_map, locals, body, size,
                   jump_instrs, pc, fault>>
    /\ UNCHANGED adata_vars

\* The end of a loop or switch.
PopRegion ==
    /\ Emitting
    /\ stack # <<>>
    /\ Last(stack).kind # "TryFinally"
    /\ stack' = Front(stack)
    /\ pc' = "emit"
    /\ out' = <<>> /\ op' = NoOp
    /\ UNCHANGED <<label_next, label_id_map, locals,
                   body, size, jump_instrs, fault>>
    /\ UNCHANGED adata_vars

(***************************************************************************)
(* Statements.  body holds the instructions of the try bodies that are     *)
(* open; what is emitted outside every try block goes to the caller.       *)
(***************************************************************************)
AppendInstr(i) ==
    /\ Emitting
    /\ InTry(stack)
    /\ size + CostSpecial <= MaxSize
    /\ body' = Append(body, i)
    /\ size' = size + CostSpecial
    /\ pc' = "emit"
    /\ out' = <<>> /\ op' = NoOp
    /\ UNCHANGED <<stack, label_next, label_id_map, locals,
                   jump_instrs, fault>>
    /\ UNCHANGED adata_vars

EmitReturn(n_out, lvl) ==
    /\ Emitting
    /\ InTry(stack) => size + 1 <= MaxSize
    /\ <<n_out, lvl>> \in StatementStates(stack, TRUE)
    /\ LET r == emit_return(FALSE, stack, n_out, lvl, label_id_map, locals)
       IN  /\ out' = r.instrs
           /\ label_id_map' = r.ids
           /\ locals' = r.locals
           /\ body' = IF InTry(stack) THEN body \o r.instrs ELSE body
    /\ size' = IF InTry(stack) THEN size + 1 ELSE size
    /\ op' = [NoOp EXCEPT !.name = "emit_return", !.num_out = n_out,
                          !.reification = lvl,
                          !.ids_before = label_id_map,
                          !.label_next_before = label_next]
    /\ pc' = "emit"
    /\ UNCHANGED <<stack, label_next, jump_instrs, fault>>
    /\ UNCHANGED adata_vars

EmitBreakOrContinue(is_break, pos, level) ==
    /\ Emitting
    /\ InTry(stack) => size + StmtCost(level) <= MaxSize
    /\ LET r == emit_break_or_continue(is_break, FALSE, stack, pos, level,
                                       label_id_map, locals)
       IN  /\ out' = r.instrs
           /\ label_id_map' = r.ids
           /\ locals' = r.locals
           /\ body' = IF InTry(stack) THEN body \o r.instrs ELSE body
    /\ size' = IF InTry(stack) THEN size + StmtCost(level) ELSE size
    /\ op' = [NoOp EXCEPT !.name = "emit_break_or_continue",
                          !.is_break = is_break, !.level = level, !.pos = pos,
                          !.ids_before = label_id_map,
                          !.label_next_before = label_next]
    /\ pc' = "emit"
    /\ UNCHANGED <<stack, label_next, jump_instrs, fault>>
    /\ UNCHANGED adata_vars

(***************************************************************************)
(* The end of a try body: scan, clean, leave the region, emit the epilogue.*)
(***************************************************************************)
TryBody == Drop(body, Last(stack).start)

Collect ==
    /\ Emitting
    /\ stack # <<>>
    /\ Last(stack).kind = "TryFinally"
    /\ LET r == collect(TryBody, label_id_map, stack)
       IN  /\ jump_instrs' = r.map
           /\ label_id_map' = r.ids
           /\ fault' = r.panic
    /\ out' = <<>>
    /\ op' = [NoOp EXCEPT !.name = "collect", !.instr_seq = TryBody]
    /\ pc' = "collected"
    /\ UNCHANGED <<stack, label_next, locals, body, size>>
    /\ UNCHANGED adata_vars

CleanupTryBody ==
    /\ pc = "collected" /\ ~fault
    /\ out' = cleanup_try_body(TryBody)
    /\ body' = SubSeq(body, 1, Last(stack).start) \o out'
    /\ op' = [NoOp EXCEPT !.name = "cleanup_try_body", !.instr_seq = TryBody]
    /\ pc' = "cleaned"
    /\ UNCHANGED <<stack, label_next, label_id_map, locals, size,
                   jump_instrs, fault>>
    /\ UNCHANGED adata_vars

\* Leaving the try region; the finally body is emitted next.
PopTryFinally ==
    /\ pc = "cleaned" /\ ~fault
    /\ stack' = Front(stack)
    /\ out' = <<>>
    /\ op' = [NoOp EXCEPT !.name = "finally", !.finally_end = Last(stack).finally_end]
    /\ pc' = "finally"
    /\ UNCHANGED <<label_next, label_id_map, locals, body, size,
                   jump_instrs, fault>>
    /\ UNCHANGED adata_vars

\* The re-lowerings emit_instr made during an epilogue, by exit id.
Relowered(st, n_out, lvl, pos, jis, m, ls) ==
    [k \in DOMAIN jis |-> emit_instr(st, n_out, lvl, pos, jis[k], m, ls).instrs]

EmitFinallyEpilogue(pos, n_out, lvl) ==
    /\ pc = "finally" /\ ~fault
    /\ <<n_out, lvl>> \in StatementStates(stack,
                 \E k \in DOMAIN jump_instrs : IsRet(jump_instrs[k]))
    /\ LET r == emit_finally_epilogue(stack, n_out, lvl, pos, jump_instrs,
                                      op.finally_end, label_id_map, locals,
                                      label_next)
       IN  /\ out' = r.instrs
           /\ label_id_map' = r.ids
           /\ locals' = r.locals
           /\ label_next' = r.label_next
           /\ body' = IF InTry(stack) THEN body \o r.instrs ELSE <<>>
    /\ op' = [NoOp EXCEPT !.name = "emit_finally_epilogue", !.pos = pos,
                          !.in_finally_epilogue = TRUE,
                          !.num_out = n_out, !.reification = lvl,
                          !.finally_end = op.finally_end,
                          !.jump_instrs = jump_instrs,
                          !.relowered = Relowered(stack, n_out, lvl, pos,
                                           jump_instrs, label_id_map, locals),
                          !.ids_before = label_id_map,
                          !.label_next_before = label_next]
    /\ jump_instrs' = <<>>
    /\ pc' = "emit"
    /\ UNCHANGED <<stack, size, fault>>
    /\ UNCHANGED adata_vars

Next ==
    \/ \E b \in BOOLEAN : PushLoop(b)
    \/ PushSwitch
    \/ PushTryFinally
    \/ PopRegion
    \/ \E i \in RawInstrs : AppendInstr(i)
    \/ \E n \in 0..MaxOut, lvl \in ReificationLevels : EmitReturn(n, lvl)
    \/ \E b \in BOOLEAN, p \in Positions, l \in 1..MaxLevel :
          EmitBreakOrContinue(b, p, l)
    \/ Collect
    \/ CleanupTryBody
    \/ PopTryFinally
    \/ \E p \in Positions, n \in 0..MaxOut, lvl \in ReificationLevels :
          EmitFinallyEpilogue(p, n, lvl)

Spec == Init /\ [][Next]_vars

(***************************************************************************)
(* emit_adata: identifiers of array literals.                              *)
(***************************************************************************)
\* The typed values handed to get_array_identifier.
TypedValues == {"vec[1]", "vec[2]", "dict[]"}

\* The AdataState of the emitter.
AdataState ==
    [counter |-> array_identifier_counter, map |-> array_identifier_map,
     adata |-> adata]

\* next_adata_id: format the counter, advance it, push the entry.
next_adata_id(st, value) ==
    LET id == "A_" \o ToString(st.counter)
    IN  [state |-> [counter |-> st.counter + 1,
                    map |-> st.map,
                    adata |-> Append(st.adata, [id |-> id, value |-> value])],
         id |-> id]

\* An identifier lookup that never consults the map.
get_array_identifier_always_mints(flag, st, tv) == next_adata_id(st, tv)

\* get_array_identifier: the state afterwards and the identifier returned.
get_array_identifier(flag, st, tv) ==
    IF flag
    THEN next_adata_id(st, tv)
    ELSE IF tv \notin DOMAIN st.map
    THEN LET r == next_adata_id(st, tv)
         IN  [state |-> [r.state EXCEPT
                            !.map = [k \in DOMAIN st.map \cup {tv} |->
                                        IF k = tv THEN r.id ELSE st.map[k]]],
              id |-> r.id]
    ELSE [state |-> st, id |-> st.map[tv]]

InitAdata == RewriterInit /\ \E flag \in BOOLEAN : AdataInit(flag)

GetArrayIdentifier(tv) ==
    /\ array_identifier_counter < MaxAdata
    /\ LET r == get_array_identifier(array_provenance, AdataState, tv)
       IN  /\ array_identifier_counter' = r.state.counter
           /\ array_identifier_map' = r.state.map
           /\ adata' = r.state.adata
           /\ adata_call' = [name |-> "get_array_identifier", tv |-> tv,
                             id |-> r.id,
                             seen_before |-> \E p \in issued : p[1] = tv,
                             counter_before |-> array_identifier_counter,
                             len_before |-> Len(adata)]
           /\ issued' = issued \cup {<<tv, r.id>>}
    /\ UNCHANGED <<array_provenance, rewriter_vars>>

\* take: hand the state over and leave AdataState::default() behind.
Take ==
    /\ array_identifier_counter' = 0
    /\ array_identifier_map' = <<>>
    /\ adata' = <<>>
    /\ adata_call' = [NoAdataCall EXCEPT !.name = "take"]
    /\ issued' = {}
    /\ UNCHANGED <<array_provenance, rewriter_vars>>

NextAdata ==
    \/ \E tv \in TypedValues : GetArrayIdentifier(tv)
    \/ Take

SpecAdata == InitAdata /\ [][NextAdata]_vars

(***************************************************************************)
(* Properties.                                                             *)
(***************************************************************************)
ExitOpcodes == {"RetC", "RetCSuspended", "RetM", "Break", "Continue"}

RetOpcodes == {"RetC", "RetCSuspended", "RetM"}

\* Positions of the instructions of is that are not exits, and the k-th of them.
KeptIdx(is) == {j \in 1..Len(is) : is[j][1] \notin ExitOpcodes}

NthKept(is, k) ==
    CHOOSE j \in KeptIdx(is) : Cardinality({i \in KeptIdx(is) : i < j}) = k - 1

\* C1: cleanup_try_body returns exactly the subsequence of its input made of
\* the instructions that are not RetC, RetCSuspended, RetM, Break or
\* Continue: none of these remains, and every other instruction is kept
\* once, in its original relative order.
C1_CleanupKeepsExactlyNonExits ==
    op.name = "cleanup_try_body" =>
        /\ \A k \in 1..Len(out) : out[k][1] \notin ExitOpcodes
        /\ Len(out) = Cardinality(KeptIdx(op.instr_seq))
        /\ \A k \in 1..Len(out) : out[k] = op.instr_seq[NthKept(op.instr_seq, k)]

\* A cleaned body that held a return, a Break or Continue, and other
\* instructions before and after an exit.
C1_Witness ==
    /\ op.name = "cleanup_try_body"
    /\ \E i, j, k \in 1..Len(op.instr_seq) :
          /\ i < j /\ j < k
          /\ op.instr_seq[i][1] \notin ExitOpcodes
          /\ op.instr_seq[j][1] \in RetOpcodes
          /\ op.instr_seq[k][1] \notin ExitOpcodes
    /\ \E j \in 1..Len(op.instr_seq) : op.instr_seq[j][1] \in {"Break", "Continue"}
    /\ Len(out) >= 2

\* The exit id of the exit instruction i of a scanned body.
ExitKey(i) ==
    IF i[1] \in RetOpcodes THEN IdReturn
    ELSE IdLabel(get_target_for_level(stack, i[1] = "Break", i[2]).target_label)

ExitIdOf(i) == IndexOf(label_id_map, ExitKey(i)) - 1

ExitIdx(is) == {j \in 1..Len(is) : is[j][1] \in ExitOpcodes}

SameIdIdx(is, j) == {i \in ExitIdx(is) : ExitKey(is[i]) = ExitKey(is[j])}

Scanned == op.name = "collect" /\ ~fault

\* C2 as claimed: the map returned by JumpInstructions::collect associates
\* an exit id with the first instruction of the body that maps to it.
C2_FirstOccurrenceKept ==
    Scanned =>
        \A j \in ExitIdx(op.instr_seq) :
            LET first == CHOOSE i \in SameIdIdx(op.instr_seq, j) :
                             \A h \in SameIdIdx(op.instr_seq, j) : i <= h
            IN  jump_instrs[ExitIdOf(op.instr_seq[j])] = op.instr_seq[first]

\* C2, amended: the keys of the map are the exit ids of the exits of the
\* body, and an id is associated with the last instruction of the body that
\* maps to it; a later occurrence replaces an earlier one.
C2_LastOccurrenceKept ==
    Scanned =>
        /\ DOMAIN jump_instrs =
               {ExitIdOf(op.instr_seq[j]) : j \in ExitIdx(op.instr_seq)}
        /\ \A j \in ExitIdx(op.instr_seq) :
               LET last == CHOOSE i \in SameIdIdx(op.instr_seq, j) :
                               \A h \in SameIdIdx(op.instr_seq, j) : h <= i
               IN  jump_instrs[ExitIdOf(op.instr_seq[j])] = op.instr_seq[last]

\* A scanned body with two different return instructions, and one with a
\* Break and a Continue that resolve to the same label.
C2_Witness ==
    /\ Scanned
    /\ \E i, j \in ExitIdx(op.instr_seq) :
          /\ i < j
          /\ ExitKey(op.instr_seq[i]) = ExitKey(op.instr_seq[j])
          /\ op.instr_seq[i] # op.instr_seq[j]
          /\ op.instr_seq[i][1] \in RetOpcodes

C2_WitnessSameLabel ==
    /\ Scanned
    /\ \E i, j \in ExitIdx(op.instr_seq) :
          /\ i < j
          /\ ExitKey(op.instr_seq[i]) = ExitKey(op.instr_seq[j])
          /\ op.instr_seq[i][1] = "Break"
          /\ op.instr_seq[j][1] = "Continue"

\* ---- The finally epilogue ------------------------------------------------
Epilogue == op.name = "emit_finally_epilogue"

Keys == DOMAIN op.jump_instrs

MaxKey == CHOOSE x \in Keys : \A y \in Keys : y <= x

Opcodes(is) == {is[k][1] : k \in 1..Len(is)}

Count(is, i) == Cardinality({k \in 1..Len(is) : is[k] = i})

\* The re-lowering of a captured exit: the lowering of the statement it
\* stands for, with in_finally_epilogue = true, on the stack of the epilogue.
Relower(i) ==
    IF i[1] \in RetOpcodes
    THEN emit_return(TRUE, stack, op.num_out, op.reification,
                     label_id_map, locals).instrs
    ELSE emit_break_or_continue(i[1] = "Break", TRUE, stack, op.pos, i[2],
                                label_id_map, locals).instrs

\* The labels of the Switch of a multi-exit epilogue.
SwitchLabels == out[5][2]

\* C3: with two or more exits the Switch has max_id + 1 labels; the label at
\* index i is the fresh handler label of the exit with id i when i is a key
\* of the map, and finally_end when it is not.
C3_SwitchIsDense ==
    (Epilogue /\ Cardinality(Keys) >= 2) =>
        /\ Len(out) >= 5
        /\ out[5][1] = "Switch"
        /\ Cardinality({k \in 1..Len(out) : out[k][1] = "Switch"}) = 1
        /\ Len(SwitchLabels) = MaxKey + 1
        /\ \A i \in 0..MaxKey :
              LET h == SwitchLabels[i + 1] IN
              IF i \in Keys
              THEN /\ h \in op.label_next_before..(label_next - 1)
                   /\ h # op.finally_end
                   /\ \E p \in 1..Len(out) :
                         /\ out[p] = instr_label(h)
                         /\ SubSeq(out, p + 1, p + Len(Relower(op.jump_instrs[i])))
                                = Relower(op.jump_instrs[i])
              ELSE h = op.finally_end

\* An epilogue whose map has a hole between two keys and one below the
\* smallest key.
C3_Witness ==
    /\ Epilogue
    /\ Cardinality(Keys) >= 2
    /\ \E i, j, k \in 0..MaxKey : i < j /\ j < k /\ i \in Keys /\ j \notin Keys /\ k \in Keys

C3_WitnessFrontHole ==
    /\ Epilogue
    /\ Cardinality(Keys) >= 2
    /\ 0 \notin Keys

\* The handler fragments of the keys in S, in ascending id order.
RECURSIVE AscFragments(_)
AscFragments(S) ==
    IF S = {} THEN <<>>
    ELSE LET mn == CHOOSE x \in S : \A y \in S : x <= y
         IN  <<instr_label(SwitchLabels[mn + 1])>> \o Relower(op.jump_instrs[mn])
             \o AscFragments(S \ {mn})

\* C4: with two or more exits the epilogue is the guard, the Switch and then
\* one handler fragment per key, in ascending id order, each the handler's
\* Label followed by the re-lowering of the exit stored under that id; every
\* handler label is defined by exactly one Label instruction, and the
\* handler labels are pairwise distinct and distinct from finally_end.
C4_OneHandlerPerKey ==
    (Epilogue /\ Cardinality(Keys) >= 2) =>
        /\ out = <<instr_srcloc(op.pos), instr_issetl(LabelLocal),
                   instr_jmpz(op.finally_end), instr_cgetl(LabelLocal), out[5]>>
                 \o AscFragments(Keys)
        /\ \A k \in Keys : Count(out, instr_label(SwitchLabels[k + 1])) = 1
        /\ Cardinality({k \in 1..Len(out) : out[k][1] = "Label"}) = Cardinality(Keys)
        /\ \A i, j \in Keys : i # j => SwitchLabels[i + 1] # SwitchLabels[j + 1]
        /\ \A k \in Keys : SwitchLabels[k + 1] # op.finally_end

\* An epilogue with three handlers, among them a return and a break.
C4_Witness ==
    /\ Epilogue
    /\ Cardinality(Keys) >= 3
    /\ \E i, j \in Keys : /\ op.jump_instrs[i][1] \in RetOpcodes
                          /\ op.jump_instrs[j][1] = "Break"

C5_WitnessBreak ==
    /\ Epilogue
    /\ Cardinality(Keys) = 1
    /\ \E k \in Keys : op.jump_instrs[k][1] = "Break"

\* ---- Return lowering ------------------------------------------------------
ReturnCall == op.name = "emit_return"

ClosestFinally == get_closest_enclosing_finally_label(stack)

ReturnId == IndexOf(label_id_map, IdReturn) - 1

\* The captured exits of the last epilogue that are returns.
ReturnKeys == {k \in Keys : op.jump_instrs[k][1] \in RetOpcodes}

\* The jump into a finally block, freeing the iterators on the way.
JumpTo(l, its) == IF its = <<>> THEN <<"Jmp", l>> ELSE <<"IterBreak", l, its>>

\* C6: emit_return with in_finally_epilogue = false and a nearest enclosing
\* finally (finally_label, iters_between) emits exactly Int(ReturnId),
\* SetL(label_local), PopC, SetL(retval_local), PopC, the jump to
\* finally_label (IterBreak when iters_between is not empty) and RetC; no
\* verification, IterFree or RetM instruction is emitted.
C6_ReturnInsideTry ==
    (ReturnCall /\ ~op.in_finally_epilogue /\ ClosestFinally # <<>>) =>
        /\ IdReturn \in Range(label_id_map)
        /\ out = << <<"Int", ReturnId>>, <<"SetL", "label_local">>, <<"PopC">>,
                    <<"SetL", "retval_local">>, <<"PopC">>,
                    JumpTo(ClosestFinally[1], ClosestFinally[2]), <<"RetC">> >>
        /\ Opcodes(out) \cap {"IterFree", "RetM", "VerifyRetTypeC",
                              "VerifyRetTypeTS", "VerifyOutType"} = {}

\* A return lowered inside a try with an iterator loop between it and the
\* finally, after another exit id was allocated.
C6_Witness ==
    /\ ReturnCall /\ ~op.in_finally_epilogue
    /\ ClosestFinally # <<>>
    /\ ClosestFinally[2] # <<>>

C6_WitnessLateId ==
    /\ ReturnCall /\ ~op.in_finally_epilogue
    /\ ClosestFinally # <<>>
    /\ ClosestFinally[2] = <<>>
    /\ ReturnId > 0

\* The real return sequence of C7.
RealReturn(in_fin) ==
    (IF in_fin THEN << <<"CGetL", "retval_local">> >> ELSE <<>>)
    \o verify_return_instr(op.reification)
    \o verify_out(op.num_out)
    \o [k \in 1..Len(iterators(stack)) |-> <<"IterFree", iterators(stack)[k]>>]
    \o << IF op.num_out > 0 THEN <<"RetM", op.num_out + 1>> ELSE <<"RetC">> >>

\* C7: emit_return with no enclosing finally emits CGetL(retval_local) iff
\* in_finally_epilogue, the return-type verification, the verify-outputs
\* sequence, one IterFree per live iterator in stack order, and last
\* RetM(num_out + 1) when num_out > 0 and RetC otherwise; it writes neither
\* label_local nor retval_local and allocates no exit id.  The direct call
\* has in_finally_epilogue = false, the re-lowering of a captured return has
\* in_finally_epilogue = true.
C7_ReturnWithoutFinally ==
    /\ (ReturnCall /\ ClosestFinally = <<>>) =>
          /\ out = RealReturn(FALSE)
          /\ Opcodes(out) \cap {"SetL", "UnsetL"} = {}
          /\ label_id_map = op.ids_before
    /\ (Epilogue /\ ClosestFinally = <<>>) =>
          \A k \in ReturnKeys :
              /\ op.relowered[k] = RealReturn(TRUE)
              /\ Opcodes(op.relowered[k]) \cap {"SetL", "UnsetL"} = {}
              /\ label_id_map = op.ids_before

\* A re-lowered return with outputs, a verification and a live iterator.
C7_Witness ==
    /\ Epilogue /\ ClosestFinally = <<>>
    /\ ReturnKeys # {}
    /\ op.num_out > 0
    /\ op.reification = "Definitely"
    /\ iterators(stack) # <<>>

C7_WitnessDirect ==
    /\ ReturnCall /\ ClosestFinally = <<>>
    /\ op.num_out = 0
    /\ op.reification = "Maybe"
    /\ Len(iterators(stack)) >= 2

\* C8 as claimed: a return re-lowered in an epilogue while another finally
\* encloses saves the return exit id into label_local (Int(ReturnId),
\* SetL(label_local), PopC) and then jumps to that finally.
C8_RelowerSavesIdAgain ==
    (Epilogue /\ ClosestFinally # <<>>) =>
        \A k \in ReturnKeys :
            LET r == op.relowered[k] IN
            /\ Len(r) >= 4
            /\ SubSeq(r, 1, 3) = << <<"Int", ReturnId>>, <<"SetL", "label_local">>,
                                    <<"PopC">> >>
            /\ \E p \in 4..Len(r) : r[p] = JumpTo(ClosestFinally[1], ClosestFinally[2])

\* C8, amended: such a re-lowering saves nothing (label_local and
\* retval_local still hold what the originating site stored); it is exactly
\* the jump to the enclosing finally followed by the RetC sentinel.
C8_RelowerOnlyJumps ==
    (Epilogue /\ ClosestFinally # <<>>) =>
        \A k \in ReturnKeys :
            /\ op.relowered[k] = << JumpTo(ClosestFinally[1], ClosestFinally[2]),
                                    <<"RetC">> >>
            /\ label_id_map = op.ids_before

\* A return re-lowered in the epilogue of an inner try/finally.
C8_Witness ==
    /\ Epilogue /\ ClosestFinally # <<>>
    /\ ReturnKeys # {}

\* ---- Break/continue lowering ----------------------------------------------
BreakCall == op.name = "emit_break_or_continue"

\* The captured exits of the last epilogue that are Break/Continue.
JumpKeys == Keys \ ReturnKeys

Target(is_break, level) == get_target_for_level(stack, is_break, level)

IdOfLabel(l) == IndexOf(label_id_map, IdLabel(l)) - 1

\* The sequence C9 claims for a break/continue that goes through a finally.
ThroughFinally(in_fin, is_break, pos, t) ==
    (IF ~in_fin
     THEN << <<"Int", IdOfLabel(t.target_label)>>, <<"SetL", "label_local">>,
             <<"PopC">> >>
     ELSE <<>>)
    \o << JumpTo(t.finally_label, t.iterators_to_release),
          <<"SrcLoc", pos>>,
          IF is_break THEN <<"Break", t.adjusted_level>>
          ELSE <<"Continue", t.adjusted_level>> >>

\* C9: a break/continue that resolves to ResolvedTryFinally emits the
\* preamble Int(id(target_label)), SetL(label_local), PopC iff
\* in_finally_epilogue is false, then the jump to finally_label (IterBreak
\* when iterators are released), the position marker and last the sentinel
\* Break(adjusted_level) or Continue(adjusted_level).
C9_BreakThroughFinally ==
    /\ BreakCall =>
          LET t == Target(op.is_break, op.level) IN
          t.kind = "ResolvedTryFinally" =>
              /\ IdLabel(t.target_label) \in Range(label_id_map)
              /\ out = ThroughFinally(FALSE, op.is_break, op.pos, t)
    /\ Epilogue =>
          \A k \in JumpKeys :
              LET i == op.jump_instrs[k]
                  t == Target(i[1] = "Break", i[2])
              IN  t.kind = "ResolvedTryFinally" =>
                      op.relowered[k] = ThroughFinally(TRUE, i[1] = "Break", op.pos, t)

\* A break of two levels that crosses a loop before the finally, and a
\* continue re-lowered in an epilogue with another finally in the way.
C9_Witness ==
    /\ BreakCall /\ op.is_break /\ op.level = 2
    /\ Target(TRUE, 2).kind = "ResolvedTryFinally"
    /\ Target(TRUE, 2).adjusted_level = 1
    /\ Target(TRUE, 2).iterators_to_release # <<>>

C9_WitnessRelowered ==
    /\ Epilogue
    /\ \E k \in JumpKeys :
          /\ op.jump_instrs[k][1] = "Continue"
          /\ Target(FALSE, op.jump_instrs[k][2]).kind = "ResolvedTryFinally"

\* The sequence C10 claims for a break/continue with no finally in the way.
Direct(in_fin, level, pos, t) ==
    (IF in_fin /\ level = 1 THEN << <<"UnsetL", "label_local">> >> ELSE <<>>)
    \o << <<"SrcLoc", pos>>, JumpTo(t.target_label, t.iterators_to_release) >>

\* C10: a break/continue that resolves to ResolvedRegular emits
\* UnsetL(label_local) first iff in_finally_epilogue and level = 1, then the
\* position marker, then the jump to target_label (IterBreak when iterators
\* are released); it emits no Break/Continue sentinel, saves no exit id and
\* allocates none.
C10_BreakWithoutFinally ==
    /\ BreakCall =>
          LET t == Target(op.is_break, op.level) IN
          t.kind = "ResolvedRegular" =>
              /\ out = Direct(FALSE, op.level, op.pos, t)
              /\ Opcodes(out) \cap {"Break", "Continue", "Int", "SetL"} = {}
              /\ label_id_map = op.ids_before
    /\ Epilogue =>
          \A k \in JumpKeys :
              LET i == op.jump_instrs[k]
                  t == Target(i[1] = "Break", i[2])
              IN  t.kind = "ResolvedRegular" =>
                      /\ op.relowered[k] = Direct(TRUE, i[2], op.pos, t)
                      /\ Opcodes(op.relowered[k])
                             \cap {"Break", "Continue", "Int", "SetL"} = {}
                      /\ label_id_map = op.ids_before

\* A break of two levels re-lowered in an epilogue with no finally left,
\* and a break of one level re-lowered that frees an iterator.
C10_Witness ==
    /\ Epilogue
    /\ \E k \in JumpKeys :
          /\ op.jump_instrs[k] = <<"Break", 2>>
          /\ Target(TRUE, 2).kind = "ResolvedRegular"

C10_WitnessUnset ==
    /\ Epilogue
    /\ \E k \in JumpKeys :
          /\ op.jump_instrs[k] = <<"Break", 1>>
          /\ Target(TRUE, 1).kind = "ResolvedRegular"
          /\ Target(TRUE, 1).iterators_to_release # <<>>

C10_WitnessDirect ==
    /\ BreakCall /\ ~op.is_break
    /\ Target(FALSE, op.level).kind = "ResolvedRegular"

\* ---- Unresolvable levels --------------------------------------------------
\* The fatal emitter's sequence for a break/continue of the given level.
FatalOnly(pos, level) == << <<"Fatal", pos, level>> >>

\* C11: a break/continue whose level exceeds the enclosing loops and
\* switches (NotFound) yields the fatal emitter's sequence only, for either
\* is_break and either in_finally_epilogue, and leaves the bookkeeping as it
\* was: no exit id allocated, label_local and retval_local neither allocated
\* nor referenced, no label generated, the jump-target stack unchanged.
C11_NotFoundIsFatalOnly ==
    [][(/\ op'.name = "emit_break_or_continue"
        /\ get_target_for_level(stack, op'.is_break, op'.level).kind = "NotFound")
       => /\ out' = FatalOnly(op'.pos, op'.level)
          /\ label_id_map' = label_id_map
          /\ locals' = locals
          /\ label_next' = label_next
          /\ stack' = stack
          /\ \A b, e \in BOOLEAN :
                emit_break_or_continue(b, e, stack, op'.pos, op'.level,
                                       label_id_map, locals)
                    = [instrs |-> FatalOnly(op'.pos, op'.level),
                       ids |-> label_id_map, locals |-> locals]
      ]_vars

\* A fatal break inside a try block, after an exit id and the rewriter's
\* locals were allocated, with one loop enclosing.
C11_Witness ==
    /\ BreakCall
    /\ Target(op.is_break, op.level).kind = "NotFound"
    /\ out = FatalOnly(op.pos, op.level)
    /\ InTry(stack)
    /\ \E i \in 1..Len(stack) : stack[i].kind = "Loop"
    /\ label_id_map # <<>>
    /\ locals # {}

\* Positions of the Break/Continue of a scanned body that resolve to no
\* enclosing loop or switch.
Unresolved(is) ==
    {j \in 1..Len(is) :
        /\ is[j][1] \in {"Break", "Continue"}
        /\ get_target_for_level(stack, is[j][1] = "Break", is[j][2]).kind
               = "NotFound"}

\* C12 as claimed: the scanner passes over a Break/Continue that resolves to
\* NotFound: the scan completes, and the map holds the ids of the other
\* exits of the body and no entry for that instruction.
C12_ScannerSkipsUnresolved ==
    (op.name = "collect" /\ Unresolved(op.instr_seq) # {}) =>
        /\ ~fault
        /\ DOMAIN jump_instrs =
               {ExitIdOf(op.instr_seq[j]) :
                    j \in ExitIdx(op.instr_seq) \ Unresolved(op.instr_seq)}

\* C12, amended: get_label_id reaches unreachable!() on such an instruction:
\* the scan panics exactly when the body holds one, it returns no map, what
\* follows the instruction is not scanned, and the rewriter goes no further.
C12_ScannerPanicsOnUnresolved ==
    op.name = "collect" =>
        /\ fault <=> Unresolved(op.instr_seq) # {}
        /\ fault =>
              LET first == CHOOSE j \in Unresolved(op.instr_seq) :
                               \A h \in Unresolved(op.instr_seq) : j <= h
              IN  /\ pc = "collected"
                  /\ \A k \in DOMAIN jump_instrs :
                        \E j \in 1..(first - 1) : jump_instrs[k] = op.instr_seq[j]

\* A scanned body with an unresolvable Break followed by a return.
C12_Witness ==
    /\ op.name = "collect"
    /\ \E j \in Unresolved(op.instr_seq), k \in 1..Len(op.instr_seq) :
          j < k /\ op.instr_seq[k][1] \in RetOpcodes
    /\ fault

\* ---- A return through nested try/finally ----------------------------------
TryFrames == {i \in 1..Len(stack) : stack[i].kind = "TryFinally"}

\* What has been emitted into the try body of frame i so far.
Segment(i) == Drop(body, stack[i].start)

\* A return statement was lowered inside a try: its save of the value stays
\* in the body when the exits are cleaned away.
HasReturnSite(is) == \E p \in 1..Len(is) : is[p] = <<"SetL", "retval_local">>

HasReturnSentinel(is) == \E p \in 1..Len(is) : is[p][1] \in RetOpcodes

\* The exit map awaiting its epilogue has an entry for the return.
HasReturnKey == IdReturn \in Range(label_id_map) /\ ReturnId \in DOMAIN jump_instrs

\* is occurs in s as a run of consecutive instructions.
OccursIn(is, s) ==
    \E p \in 0..(Len(s) - Len(is)) : SubSeq(s, p + 1, p + Len(is)) = is

\* C13: a return inside k >= 1 nested try/finally regions reaches every
\* level.  The emission in the try and every re-lowering that still has an
\* enclosing finally jump to the nearest enclosing finally and end with a
\* RetC sentinel; so the body of every enclosing try holds a return sentinel
\* (or, while an inner region is being closed, the exit map holds ReturnId),
\* every scan of such a body records ReturnId, and every epilogue holds the
\* re-lowered return; only the re-lowering with no finally left is the real
\* return sequence, which jumps nowhere.
C13_ReturnReachesEveryFinally ==
    /\ \A i \in TryFrames :
          HasReturnSite(Segment(i)) =>
              \/ HasReturnSentinel(Segment(i))
              \/ pc \in {"cleaned", "finally"} /\ HasReturnKey
    /\ (ReturnCall /\ ClosestFinally # <<>>) =>
          /\ out[Len(out)] = <<"RetC">>
          /\ out[Len(out) - 1] = JumpTo(ClosestFinally[1], ClosestFinally[2])
    /\ (Scanned /\ HasReturnSentinel(op.instr_seq)) =>
          /\ HasReturnKey
          /\ jump_instrs[ReturnId][1] \in RetOpcodes
    /\ Epilogue =>
          \A k \in ReturnKeys :
              LET r == op.relowered[k] IN
              /\ k = ReturnId
              /\ OccursIn(r, out)
              /\ InTry(stack) => OccursIn(r, body)
              /\ IF ClosestFinally # <<>>
                 THEN /\ r[Len(r)] = <<"RetC">>
                      /\ r[Len(r) - 1] = JumpTo(ClosestFinally[1], ClosestFinally[2])
                 ELSE /\ Opcodes(r) \cap {"Jmp", "IterBreak"} = {}
                      /\ r[Len(r)][1] \in {"RetC", "RetM"}
                      /\ r[1] = <<"CGetL", "retval_local">>

\* The outermost of three nested try bodies, cleaned, with the one return
\* of the innermost: the site, then the epilogues of the two inner regions.
C13_Witness ==
    /\ pc = "cleaned"
    /\ Len(stack) = 1
    /\ HasReturnKey
    /\ stack[1].finally_label = 1
    /\ body = << <<"Int", 0>>, <<"SetL", "label_local">>, <<"PopC">>,
                 <<"SetL", "retval_local">>, <<"PopC">>, <<"Jmp", 5>>,
                 <<"SrcLoc", 1>>, <<"IsSetL", "label_local">>, <<"JmpZ", 6>>,
                 <<"Jmp", 3>>,
                 <<"SrcLoc", 1>>, <<"IsSetL", "label_local">>, <<"JmpZ", 4>>,
                 <<"Jmp", 1>> >>

\* ---- A break/continue through try/finally ---------------------------------
\* The positions of the sentinels of a body that still follow the site that
\* saved their exit id: Int(id), SetL(label_local), PopC, the jump, the
\* position marker, the sentinel.
DirectSites(is) ==
    {p \in 6..Len(is) :
        /\ is[p][1] \in {"Break", "Continue"}
        /\ is[p - 1][1] = "SrcLoc"
        /\ is[p - 2][1] \in {"Jmp", "IterBreak"}
        /\ is[p - 3] = <<"PopC">>
        /\ is[p - 4] = <<"SetL", "label_local">>
        /\ is[p - 5][1] = "Int"}

\* The jump-target stack as the scanner of the finally labelled fl sees it.
ScanStack(fl) ==
    SubSeq(stack, 1, CHOOSE f \in 1..Len(stack) :
                         stack[f].kind = "TryFinally" /\ stack[f].finally_label = fl)

\* The label a sentinel resolves to on the scan of the finally labelled fl.
ScannedLabel(i, fl) ==
    get_target_for_level(ScanStack(fl), i[1] = "Break", i[2]).target_label

\* The exit id of label l, and -1 when none was allocated for it.
AllocatedId(l) ==
    IF IdLabel(l) \in Range(label_id_map) THEN IdOfLabel(l) ELSE -1

\* C14: for a break/continue that crosses a try/finally, the id saved at the
\* site is the id of the label resolved there; the scanner of the try files
\* the trailing sentinel under that same id; and the handler of that id,
\* re-lowered with the finally frame popped, jumps to that same label, or to
\* the next enclosing finally with a sentinel that the next scanner again
\* files under the same id.
C14_SavedIdSelectsItsTarget ==
    /\ BreakCall =>
          LET t == Target(op.is_break, op.level) IN
          t.kind = "ResolvedTryFinally" =>
              /\ out[1] = <<"Int", AllocatedId(t.target_label)>>
              /\ ScannedLabel(out[Len(out)], t.finally_label) = t.target_label
    /\ Scanned =>
          \A p \in DirectSites(op.instr_seq) :
              LET id == op.instr_seq[p - 5][2] IN
              /\ ExitIdOf(op.instr_seq[p]) = id
              /\ id \in DOMAIN jump_instrs
              /\ ExitKey(jump_instrs[id]) = ExitKey(op.instr_seq[p])
              /\ op.instr_seq[p - 2][2] = Last(stack).finally_label
    /\ Epilogue =>
          \A k \in JumpKeys :
              LET i == op.jump_instrs[k]
                  t == Target(i[1] = "Break", i[2])
                  r == op.relowered[k]
              IN  /\ t.kind # "NotFound"
                  /\ AllocatedId(t.target_label) = k
                  /\ OccursIn(r, out)
                  /\ Cardinality(Keys) >= 2 =>
                        OccursIn(<<instr_label(SwitchLabels[k + 1])>> \o r, out)
                  /\ IF t.kind = "ResolvedRegular"
                     THEN r[Len(r)] = JumpTo(t.target_label, t.iterators_to_release)
                     ELSE /\ t.finally_label = ClosestFinally[1]
                          /\ r[1] = JumpTo(t.finally_label, t.iterators_to_release)
                          /\ AllocatedId(ScannedLabel(r[Len(r)], t.finally_label)) = k

\* A handler of a multi-exit epilogue, not the one of id 0, that goes on to
\* another finally; and a scanned body with a site that saved an id other
\* than 0.
C14_Witness ==
    /\ Epilogue
    /\ Cardinality(Keys) >= 2
    /\ \E k \in JumpKeys :
          /\ k > 0
          /\ Target(op.jump_instrs[k][1] = "Break", op.jump_instrs[k][2]).kind
                 = "ResolvedTryFinally"

C14_WitnessScan ==
    /\ Scanned
    /\ \E p \in DirectSites(op.instr_seq) : op.instr_seq[p - 5][2] > 0

\* ---- Clearing label_local on the way out ----------------------------------
\* C15: every break/continue handler of an epilogue that jumps to its final
\* target label (a regular resolution) executes UnsetL(label_local) before
\* that jump, whatever the level of the break/continue.
C15_UnsetBeforeFinalJump ==
    Epilogue =>
        \A k \in JumpKeys :
            LET i == op.jump_instrs[k]
                t == Target(i[1] = "Break", i[2])
                r == op.relowered[k]
            IN  t.kind = "ResolvedRegular" =>
                    \E p, q \in 1..Len(r) :
                        /\ p < q
                        /\ r[p] = <<"UnsetL", "label_local">>
                        /\ r[q] = JumpTo(t.target_label, t.iterators_to_release)

\* The try body of `break 2` inside a try inside two loops, scanned and
\* cleaned: the site saved the id of the outer loop's break label and the
\* map holds the sentinel Break(2).
C15_Witness ==
    /\ pc = "cleaned"
    /\ Len(stack) = 3
    /\ stack[1].kind = "Loop" /\ stack[2].kind = "Loop"
    /\ stack[3].kind = "TryFinally"
    /\ body = << <<"Int", 0>>, <<"SetL", "label_local">>, <<"PopC">>,
                 JumpTo(stack[3].finally_label, <<>>), <<"SrcLoc", 1>> >>
    /\ jump_instrs = [k \in {0} |-> <<"Break", 2>>]
    /\ label_id_map = <<IdLabel(stack[1].label_break)>>

\* ---- Array identifiers ----------------------------------------------------
GetCall == adata_call.name = "get_array_identifier"

\* The identifier number n, as the code formats it.
AdataId(n) == "A_" \o ToString(n)

\* C16: after any sequence of get_array_identifier calls on one state the
\* counter equals the number of adata entries and their ids are A_0, A_1,
\* ... in order.  With ARRAY_PROVENANCE disabled, equal values received the
\* same identifier and distinct values distinct ones, and a call for a value
\* seen before appends no entry and leaves the counter.  With
\* ARRAY_PROVENANCE enabled every call mints the next identifier and appends
\* one entry, also for a value seen before.
C16_ArrayIdentifiers ==
    /\ array_identifier_counter = Len(adata)
    /\ \A k \in 1..Len(adata) : adata[k].id = AdataId(k - 1)
    /\ ~array_provenance =>
          /\ \A p, q \in issued : (p[1] = q[1]) <=> (p[2] = q[2])
          /\ \A p \in issued :
                \E k \in 1..Len(adata) : adata[k] = [id |-> p[2], value |-> p[1]]
          /\ GetCall =>
                IF adata_call.seen_before
                THEN /\ Len(adata) = adata_call.len_before
                     /\ array_identifier_counter = adata_call.counter_before
                ELSE /\ Len(adata) = adata_call.len_before + 1
                     /\ array_identifier_counter = adata_call.counter_before + 1
                     /\ adata_call.id = AdataId(adata_call.counter_before)
    /\ (array_provenance /\ GetCall) =>
          /\ Len(adata) = adata_call.len_before + 1
          /\ array_identifier_counter = adata_call.counter_before + 1
          /\ adata_call.id = AdataId(adata_call.counter_before)
          /\ adata[Len(adata)] = [id |-> adata_call.id, value |-> adata_call.tv]
          /\ \A p, q \in issued : p # q => p[2] # q[2]

\* With the flag off, a call for a value seen before, after two values got
\* their identifiers; with the flag on, a value that holds two identifiers.
C16_Witness ==
    /\ ~array_provenance
    /\ GetCall
    /\ adata_call.seen_before
    /\ Len(adata) >= 2
    /\ adata_call.id = "A_0"

C16_WitnessProvenance ==
    /\ array_provenance
    /\ GetCall
    /\ adata_call.seen_before
    /\ \E p, q \in issued : p[1] = q[1] /\ p[2] # q[2]
====
